---- MODULE Spec2Model ----
(***************************************************************************)
(* Ticket API (api/index.js): checkout issues a signed ticket into the     *)
(* key-value store, verify checks a signed payload against the store,      *)
(* scan redeems it, ticket/:id looks an order up, admin/orders lists the   *)
(* orders by the creation-time index.  Every handler is an async function: *)
(* each await of a store call is one step, and the steps of different      *)
(* requests interleave.  The email sent after a checkout is a promise that *)
(* settles in a step of its own.  The earlier in-memory revision of the    *)
(* program (checkout and ticket/:id over an array) is modelled beside it.  *)
(*                                                                         *)
(* Strings are sequences of one-character strings.  A uuid is a fresh      *)
(* natural number.  HMAC-SHA256 is modelled symbolically: the digest of a  *)
(* message under a key is the pair (key, message), so two digests are      *)
(* equal exactly when key and message are equal (no collisions).           *)
(***************************************************************************)
EXTENDS Integers, Sequences, FiniteSets, Bags, TLC

\* ------------------------------------------------------------------ bounds
MaxOrders == 1      \* uuids the checkout handler may draw
MaxReqs == 3        \* requests received in one behaviour
MaxClock == 2       \* largest value of Date.now()
MaxNameLen == 2     \* longest name tried by the validation specification
MaxEmailLen == 5    \* longest email tried by the validation specification

\* ----------------------------------------------------------------- strings
Lower == <<"a","b","c","d","e","f","g","h","i","j","k","l","m",
           "n","o","p","q","r","s","t","u","v","w","x","y","z">>
Upper == <<"A","B","C","D","E","F","G","H","I","J","K","L","M",
           "N","O","P","Q","R","S","T","U","V","W","X","Y","Z">>
Whitespace == {" "}

\* String.prototype.toUpperCase, one character at a time
upperChar(c) ==
  IF \E i \in 1..26 : Lower[i] = c
  THEN Upper[CHOOSE i \in 1..26 : Lower[i] = c]
  ELSE c
toUpperCase(s) == [i \in 1..Len(s) |-> upperChar(s[i])]

\* String.prototype.trim
RECURSIVE trimLeft(_)
trimLeft(s) ==
  IF s # <<>> /\ Head(s) \in Whitespace THEN trimLeft(Tail(s)) ELSE s
RECURSIVE trimRight(_)
trimRight(s) ==
  IF s # <<>> /\ s[Len(s)] \in Whitespace
  THEN trimRight(SubSeq(s, 1, Len(s) - 1)) ELSE s
trim(s) == trimRight(trimLeft(s))

\* ------------------------------------------------------------------ config
QR_SECRET == "secret"
ALLOWED_TICKET_TYPES ==
  { <<"V","I","P">>, <<"P","I","S","T","A">>, <<"M","E","I","A">>,
    <<"C","A","M","A","R","O","T","E">> }

\* /^[^\s@]+@[^\s@]+\.[^\s@]+$/ : some "@" at i and some "." at j > i + 1,
\* j not last, i not first, and no whitespace and no other "@" anywhere
matchesEmailPattern(t) ==
  \E i \in 1..Len(t) : \E j \in 1..Len(t) :
    /\ t[i] = "@"
    /\ t[j] = "."
    /\ 1 < i
    /\ i + 1 < j
    /\ j < Len(t)
    /\ \A k \in 1..Len(t) : k # i => (t[k] \notin Whitespace /\ t[k] # "@")
isEmail(s) == matchesEmailPattern(trim(s))

\* ------------------------------------------------------------------ values
NoId == 0           \* no id (undefined / null)
NoTime == 0         \* no timestamp (the field is absent)
NoKey == ""         \* no Idempotency-Key header

\* A payload string.  form "object": the JSON text of an object with these
\* fields (id = NoId: the object has no id); "garbage": a text that is not
\* JSON; "empty": the empty string or a missing field.
EmptyPayload ==
  [form |-> "empty", id |-> NoId, name |-> <<>>, email |-> <<>>,
   ticketType |-> <<>>, createdAt |-> NoTime, status |-> "none"]
GarbagePayload == [EmptyPayload EXCEPT !.form = "garbage"]
NoIdPayload == [EmptyPayload EXCEPT !.form = "object"]

\* A signature string: the hex digest of msg under key; flip = 1 is that
\* digest with one character changed; key "none" is the empty string.
EmptySig == [key |-> "none", msg |-> EmptyPayload, flip |-> 0]

\* JSON.stringify(order) of the six fields built by checkout
JSONstringify(o) ==
  [form |-> "object", id |-> o.id, name |-> o.name, email |-> o.email,
   ticketType |-> o.ticketType, createdAt |-> o.createdAt, status |-> o.status]

hmac(key, msg) == [key |-> key, msg |-> msg, flip |-> 0]

signUnkeyed(o) ==
  [payload |-> JSONstringify(o), sig |-> hmac("none", JSONstringify(o))]
sign(o) ==
  [payload |-> JSONstringify(o), sig |-> hmac(QR_SECRET, JSONstringify(o))]

verifySigKeyOnly(payload, sig) == sig.key = QR_SECRET /\ sig.flip = 0
verifySig(payload, sig) == hmac(QR_SECRET, payload) = sig

\* safeJsonParse(payload) followed by data?.id : NoId when the text does not
\* parse or the object has no id
parsedId(payload) == IF payload.form = "object" THEN payload.id ELSE NoId

\* !payload || !sig
missing(payload, sig) == payload.form = "empty" \/ sig.key = "none"

NoQr == [payload |-> EmptyPayload, sig |-> EmptySig, v |-> 0]
NoOrder ==
  [id |-> NoId, name |-> <<>>, email |-> <<>>, ticketType |-> <<>>,
   createdAt |-> NoTime, status |-> "none", usedAt |-> NoTime, qr |-> NoQr]

\* ------------------------------------------------------------------- state
VARIABLES
  kvOrder,            \* kv key order:<id>       : id -> stored order or NoOrder
  ordersIds,          \* kv set orders:ids
  ordersByTime,       \* kv zset orders:byTime   : id -> score or NoTime
  ordersUsedByTime,   \* kv zset orders:usedByTime (its members; no code reads a score)
  kvIdem,             \* kv key idem:<key>       : key -> order id or NoId
  now,                \* the last value Date.now() / new Date() returned
  uuids,              \* uuids drawn so far by uuidv4()
  reqs,               \* the requests in progress (a bag of request records)
  received,           \* requests received so far
  last,               \* the request answered most recently, with its response
  tally,              \* per ticket id: scan responses sent, by outcome
  firstUsedAt,        \* per ticket id: the usedAt of the first redemption write
  createdIds,         \* ids that a 201 response of checkout has returned
  emails,             \* per order id: the promise of sendTicketEmail(stored)
  orders,             \* in-memory revision: the array orders
  memUuids,           \* in-memory revision: uuids drawn so far
  memCreated          \* in-memory revision: ids its 201 responses returned

vars == <<kvOrder, ordersIds, ordersByTime, ordersUsedByTime, kvIdem, now,
          uuids, reqs, received, last, tally, firstUsedAt, createdIds,
          emails, orders, memUuids, memCreated>>
mem == <<orders, memUuids>>
store == <<kvOrder, ordersIds, ordersByTime, ordersUsedByTime, kvIdem>>

\* uuids: MaxOrders in the main specification, one more in the admin one
Ids == 1..(MaxOrders + 1)
UnissuedId == MaxOrders + 2     \* an id uuidv4() never returns here
IdemKeys == {"k1"}

getOrderOrFirst(id) == IF id \in Ids THEN kvOrder[id] ELSE kvOrder[1]
\* await kv.get(`order:${id}`), null for a key that is not set
getOrder(id) == IF id \in Ids THEN kvOrder[id] ELSE NoOrder

\* One request: its body, the handler's locals, the response, and a record
\* of the store calls it made (reads: kv.get calls issued, writes: kv.set /
\* kv.sadd / kv.zadd calls that took effect, threw: the call that threw,
\* boundAt: the order id its idempotency key was bound to when it arrived;
\* limit, ids, listed: the locals limit, ids and orders of the admin listing).
NewReq(kind) ==
  [kind |-> kind, pc |-> "done",
   name |-> <<>>, email |-> <<>>, ticketType |-> <<>>, idemKey |-> NoKey,
   payload |-> EmptyPayload, sig |-> EmptySig,
   qrPayload |-> EmptyPayload, qrSig |-> EmptySig,
   id |-> NoId, order |-> NoOrder,
   code |-> 0, error |-> "", rid |-> NoId, rstatus |-> "none",
   rusedAt |-> NoTime, idempotent |-> FALSE,
   reads |-> 0, writes |-> 0, threw |-> "", boundAt |-> NoId,
   limit |-> 0, ids |-> <<>>, listed |-> <<>>]

NoReq == NewReq("none")
NoTally == [ok |-> 0, used |-> 0, failed |-> 0]

Init ==
  /\ kvOrder = [i \in Ids |-> NoOrder]
  /\ ordersIds = {}
  /\ ordersByTime = [i \in Ids |-> NoTime]
  /\ ordersUsedByTime = {}
  /\ kvIdem = [k \in IdemKeys |-> NoId]
  /\ now = 1
  /\ uuids = 0
  /\ reqs = EmptyBag
  /\ received = 0
  /\ last = NoReq
  /\ tally = [i \in Ids |-> NoTally]
  /\ firstUsedAt = [i \in Ids |-> NoTime]
  /\ createdIds = {}
  /\ emails = [i \in Ids |-> "none"]
  /\ orders = <<>>
  /\ memUuids = 0
  /\ memCreated = {}

\* res.status(code).json(...) : the handler returns
Respond(r, code, error) ==
  [r EXCEPT !.pc = "done", !.code = code, !.error = error, !.order = NoOrder]
\* a store call threw: the catch block answers 500
Threw(r, call) == [Respond(r, 500, "error") EXCEPT !.threw = call]

\* Request q (NoReq: a request that arrives in this step) takes a step that
\* leaves it as r; a request whose handler has returned leaves reqs.  The
\* 201 of checkout is preceded by sendTicketEmail(stored).catch(() => {}),
\* which starts the delivery and does not wait for it.
Step(q, r) ==
  /\ reqs' = (reqs (-) SetToBag({q}))
               (+) (IF r.pc = "done" THEN EmptyBag ELSE SetToBag({r}))
  /\ received' = IF q = NoReq THEN received + 1 ELSE received
  /\ last' = IF r.pc = "done" THEN r ELSE last
  /\ tally' =
       IF r.pc = "done" /\ r.kind = "scan" /\ r.id \in Ids
       THEN [tally EXCEPT ![r.id] =
               IF r.code = 200 THEN [@ EXCEPT !.ok = @ + 1]
               ELSE IF r.code = 409 THEN [@ EXCEPT !.used = @ + 1]
               ELSE [@ EXCEPT !.failed = @ + 1]]
       ELSE tally
  /\ firstUsedAt' =
       IF r.kind = "scan" /\ r.pc = "zadd" /\ firstUsedAt[r.order.id] = NoTime
       THEN [firstUsedAt EXCEPT ![r.order.id] = r.order.usedAt]
       ELSE firstUsedAt
  /\ createdIds' =
       IF r.pc = "done" /\ r.kind = "checkout" /\ r.code = 201
       THEN createdIds \cup {r.rid}
       ELSE createdIds
  /\ emails' =
       IF r.pc = "done" /\ r.kind = "checkout" /\ r.code = 201
       THEN [emails EXCEPT ![r.rid] = "pending"]
       ELSE emails
  /\ memCreated' =
       IF r.pc = "done" /\ r.kind = "memCheckout" /\ r.code = 201
       THEN memCreated \cup {r.rid}
       ELSE memCreated

\* new Date() / Date.now(): some time not before the last one read
Clock(t) == t \in now..MaxClock /\ now' = t

\* ---------------------------------------------------------------- checkout
validationErrorUntrimmed(name, email, ticketType) ==
  IF name = <<>> \/ Len(name) < 2 THEN "name"
  ELSE IF ~isEmail(email) THEN "email"
  ELSE IF toUpperCase(ticketType) \notin ALLOWED_TICKET_TYPES THEN "ticketType"
  ELSE ""
\* The three checks of the handler, in order; "" when the body is accepted.
\* !name holds of the empty string (and of a missing field).
validationError(name, email, ticketType) ==
  IF name = <<>> \/ Len(trim(name)) < 2 THEN "name"
  ELSE IF ~isEmail(email) THEN "email"
  ELSE IF toUpperCase(ticketType) \notin ALLOWED_TICKET_TYPES THEN "ticketType"
  ELSE ""

\* QRCode.toDataURL(JSON.stringify({ payload, sig, v: 1 }))
toDataURL(signed) == [payload |-> signed.payload, sig |-> signed.sig, v |-> 1]

buildStoredAsGiven(id, name, email, ticketType, createdAt) ==
  LET order == [NoOrder EXCEPT !.id = id, !.name = trim(name),
                               !.email = trim(email),
                               !.ticketType = ticketType,
                               !.createdAt = createdAt, !.status = "issued"]
  IN [order EXCEPT !.qr = toDataURL(sign(order))]
buildStoredPending(id, name, email, ticketType, createdAt) ==
  LET order == [NoOrder EXCEPT !.id = id, !.name = trim(name),
                               !.email = trim(email),
                               !.ticketType = toUpperCase(ticketType),
                               !.createdAt = createdAt, !.status = "pending"]
  IN [order EXCEPT !.qr = toDataURL(sign(order))]
\* order, sign(order), qr and stored = { ...order, qr }
buildStored(id, name, email, ticketType, createdAt) ==
  LET order == [NoOrder EXCEPT !.id = id, !.name = trim(name),
                               !.email = trim(email),
                               !.ticketType = toUpperCase(ticketType),
                               !.createdAt = createdAt, !.status = "issued"]
  IN [order EXCEPT !.qr = toDataURL(sign(order))]

\* uuidv4(), new Date() = t, sign, QR: the request is ready to call saveOrder
built(r, t) ==
  [r EXCEPT !.pc = "set", !.id = uuids + 1,
            !.order = buildStored(uuids + 1, r.name, r.email, r.ticketType, t)]

\* res.status(201).json({ id, qr, order: stored })
created(r) ==
  [Respond(r, 201, "") EXCEPT !.rid = r.order.id, !.rstatus = r.order.status]

replayedNotFlagged(r, existingOrder) ==
  [Respond(r, 200, "") EXCEPT !.rid = existingOrder.id,
                               !.rstatus = existingOrder.status,
                               !.rusedAt = existingOrder.usedAt]
\* res.status(200).json({ id, qr, order: existingOrder, idempotent: true })
replayed(r, existingOrder) ==
  [Respond(r, 200, "") EXCEPT !.rid = existingOrder.id,
                               !.rstatus = existingOrder.status,
                               !.rusedAt = existingOrder.usedAt,
                               !.idempotent = TRUE]

\* The idempotency lookup of a request with a key: await kv.get(idem:<key>).
\* A throw is not caught here, so it reaches the handler's catch block.
idemLookup(r, ok) ==
  IF ~ok THEN Threw([r EXCEPT !.reads = 1], "kv.get idem")
  ELSE IF kvIdem[r.idemKey] # NoId
  THEN [r EXCEPT !.reads = 1, !.pc = "getExisting", !.id = kvIdem[r.idemKey]]
  ELSE [r EXCEPT !.reads = 1, !.pc = "build"]

\* The request arrives: validation, then the idempotency lookup, then (no
\* prior order) the new order is built; lim bounds the requests received and
\* cap the uuids drawn
CheckoutStart(lim, cap, Inputs) ==
  /\ received < lim
  /\ \E in \in Inputs :
       LET r0 == [NewReq("checkout") EXCEPT !.name = in.name,
                    !.email = in.email, !.ticketType = in.ticketType,
                    !.idemKey = in.idemKey,
                    !.boundAt = IF in.idemKey = NoKey THEN NoId
                                ELSE kvIdem[in.idemKey]]
           err == validationError(in.name, in.email, in.ticketType)
       IN
       IF err # ""
       THEN Step(NoReq, Respond(r0, 400, err)) /\ UNCHANGED <<now, uuids>>
       ELSE \E ok \in (IF in.idemKey = NoKey THEN {TRUE} ELSE BOOLEAN) :
              LET r1 == IF in.idemKey = NoKey THEN [r0 EXCEPT !.pc = "build"]
                        ELSE idemLookup(r0, ok)
              IN
              IF r1.pc = "build"
              THEN /\ uuids < cap
                   /\ \E t \in now..MaxClock :
                        Clock(t) /\ Step(NoReq, built(r1, t))
                   /\ uuids' = uuids + 1
              ELSE Step(NoReq, r1) /\ UNCHANGED <<now, uuids>>
  /\ UNCHANGED mem
  /\ UNCHANGED store

\* await getOrder(existingId); a binding whose order is gone is ignored
CheckoutGetExisting(q) ==
  /\ BagIn(q, reqs)
  /\ q.kind = "checkout" /\ q.pc = "getExisting"
  /\ \E ok \in BOOLEAN :
       LET r1 == [q EXCEPT !.reads = @ + 1] IN
       IF ~ok
       THEN Step(q, Threw(r1, "kv.get order")) /\ UNCHANGED <<now, uuids>>
       ELSE IF getOrder(r1.id) # NoOrder
       THEN Step(q, replayed(r1, getOrder(r1.id))) /\ UNCHANGED <<now, uuids>>
       ELSE /\ uuids < MaxOrders
            /\ \E t \in now..MaxClock : Clock(t) /\ Step(q, built(r1, t))
            /\ uuids' = uuids + 1
  /\ UNCHANGED mem
  /\ UNCHANGED store

\* saveOrder: await kv.set(order:<id>, order)
CheckoutSet(q) ==
  /\ BagIn(q, reqs)
  /\ q.kind = "checkout" /\ q.pc = "set"
  /\ \E ok \in BOOLEAN :
       IF ok
       THEN /\ kvOrder' = [kvOrder EXCEPT ![q.id] = q.order]
            /\ Step(q, [q EXCEPT !.pc = "sadd", !.writes = @ + 1])
       ELSE /\ Step(q, Threw(q, "kv.set order"))
            /\ UNCHANGED kvOrder
  /\ UNCHANGED mem
  /\ UNCHANGED <<ordersIds, ordersByTime, ordersUsedByTime, kvIdem, now, uuids>>

\* saveOrder: await kv.sadd(orders:ids, id)
CheckoutSadd(q) ==
  /\ BagIn(q, reqs)
  /\ q.kind = "checkout" /\ q.pc = "sadd"
  /\ \E ok \in BOOLEAN :
       IF ok
       THEN /\ ordersIds' = ordersIds \cup {q.id}
            /\ Step(q, [q EXCEPT !.pc = "zadd", !.writes = @ + 1])
       ELSE /\ Step(q, Threw(q, "kv.sadd ids"))
            /\ UNCHANGED ordersIds
  /\ UNCHANGED mem
  /\ UNCHANGED <<kvOrder, ordersByTime, ordersUsedByTime, kvIdem, now, uuids>>

\* saveOrder: await kv.zadd(orders:byTime, { score: Date.now(), member: id });
\* without an idempotency key the handler then answers 201
CheckoutZadd(q) ==
  /\ BagIn(q, reqs)
  /\ q.kind = "checkout" /\ q.pc = "zadd"
  /\ \E t \in now..MaxClock : \E ok \in BOOLEAN :
       /\ Clock(t)
       /\ IF ok
          THEN /\ ordersByTime' = [ordersByTime EXCEPT ![q.id] = t]
               /\ LET r1 == [q EXCEPT !.writes = @ + 1] IN
                  IF r1.idemKey # NoKey
                  THEN Step(q, [r1 EXCEPT !.pc = "bind"])
                  ELSE Step(q, created(r1))
          ELSE /\ Step(q, Threw(q, "kv.zadd byTime"))
               /\ UNCHANGED ordersByTime
  /\ UNCHANGED mem
  /\ UNCHANGED <<kvOrder, ordersIds, ordersUsedByTime, kvIdem, uuids>>

\* try { await kv.set(idem:<key>, id, { ex: 600 }) } catch { }, then 201
CheckoutBind(q) ==
  /\ BagIn(q, reqs)
  /\ q.kind = "checkout" /\ q.pc = "bind"
  /\ \E ok \in BOOLEAN :
       IF ok
       THEN /\ kvIdem' = [kvIdem EXCEPT ![q.idemKey] = q.id]
            /\ Step(q, created([q EXCEPT !.writes = @ + 1]))
       ELSE /\ Step(q, created([q EXCEPT !.threw = "kv.set idem"]))
            /\ UNCHANGED kvIdem
  /\ UNCHANGED mem
  /\ UNCHANGED <<kvOrder, ordersIds, ordersByTime, ordersUsedByTime, now, uuids>>

\* the { ex: 600 } of a binding runs out
ExpireIdem ==
  /\ \E k \in IdemKeys :
       /\ kvIdem[k] # NoId
       /\ kvIdem' = [kvIdem EXCEPT ![k] = NoId]
  /\ UNCHANGED mem
  /\ UNCHANGED <<kvOrder, ordersIds, ordersByTime, ordersUsedByTime, now,
                 uuids, reqs, received, last, tally, firstUsedAt, createdIds,
                 emails, memCreated>>

\* How the promise of sendTicketEmail settles: no API key or sender
\* configured, the provider accepted the message, the provider answered with
\* an error status, fetch rejected
EmailOutcomes == {"email-disabled", "sent", "resend-error", "rejected"}

SendTicketEmailRollingBack ==
  /\ \E id \in Ids : \E out \in EmailOutcomes :
       /\ emails[id] = "pending"
       /\ emails' = [emails EXCEPT ![id] = out]
       /\ kvOrder' = IF out = "rejected" THEN [kvOrder EXCEPT ![id] = NoOrder]
                     ELSE kvOrder
  /\ UNCHANGED mem
  /\ UNCHANGED <<ordersIds, ordersByTime, ordersUsedByTime, kvIdem, now, uuids,
                 reqs, received, last, tally, firstUsedAt, createdIds,
                 memCreated>>
\* The delivery started by a checkout settles, some time after the response
\* (or never: no step of it is ever forced); a rejection is swallowed by
\* the .catch(() => {}) of the caller
SendTicketEmail ==
  /\ \E id \in Ids : \E out \in EmailOutcomes :
       /\ emails[id] = "pending"
       /\ emails' = [emails EXCEPT ![id] = out]
  /\ UNCHANGED mem
  /\ UNCHANGED <<store, now, uuids, reqs, received, last, tally, firstUsedAt,
                 createdIds, memCreated>>

\* --------------------------------------------------------- verify and scan
\* let payload = req.body?.payload, sig = req.body?.sig, with the fallback to
\* req.body.qrData when one of them is missing
resolveBody(b) ==
  IF missing(b.payload, b.sig) /\ ~missing(b.qrPayload, b.qrSig)
  THEN [payload |-> b.qrPayload, sig |-> b.qrSig]
  ELSE [payload |-> b.payload, sig |-> b.sig]

\* The checks both handlers make before they touch the store
precheck(payload, sig) ==
  IF missing(payload, sig) THEN "payload/sig missing"
  ELSE IF ~verifySig(payload, sig) THEN "invalid-signature"
  ELSE IF parsedId(payload) = NoId THEN "malformed-payload"
  ELSE ""
precheckCode(err) == IF err = "invalid-signature" THEN 401 ELSE 400

NewBodyReq(kind, b) ==
  [NewReq(kind) EXCEPT !.payload = b.payload, !.sig = b.sig,
                       !.qrPayload = b.qrPayload, !.qrSig = b.qrSig]

verifiedFromPayload(r, fromDb) ==
  [Respond(r, 200, "") EXCEPT !.rid = r.id,
                               !.rstatus = resolveBody(r).payload.status,
                               !.rusedAt = NoTime]
\* res.json({ ok: true, order: data, status: fromDb.status,
\*            usedAt: fromDb.usedAt || null })
verified(r, fromDb) ==
  [Respond(r, 200, "") EXCEPT !.rid = r.id, !.rstatus = fromDb.status,
                               !.rusedAt = fromDb.usedAt]

VerifyMarking(lim, Bodies) ==
  /\ received < lim
  /\ \E b \in Bodies :
       LET in == resolveBody(b)
           err == precheck(in.payload, in.sig)
           r0 == NewBodyReq("verify", b)
           r1 == [r0 EXCEPT !.reads = 1, !.id = parsedId(in.payload)]
       IN
       IF err # ""
       THEN Step(NoReq, Respond(r0, precheckCode(err), err))
              /\ UNCHANGED ordersUsedByTime
       ELSE \E ok \in BOOLEAN :
              IF ~ok
              THEN Step(NoReq, Threw(r1, "kv.get order"))
                     /\ UNCHANGED ordersUsedByTime
              ELSE IF getOrder(r1.id) = NoOrder
              THEN Step(NoReq, Respond(r1, 404, "order-not-found"))
                     /\ UNCHANGED ordersUsedByTime
              ELSE /\ Step(NoReq, verified(r1, getOrder(r1.id)))
                   /\ ordersUsedByTime' = ordersUsedByTime \cup {r1.id}
  /\ UNCHANGED mem
  /\ UNCHANGED <<kvOrder, ordersIds, ordersByTime, kvIdem, now, uuids>>
\* POST /api/verify: the whole handler; its one store call is getOrder
Verify(lim, Bodies) ==
  /\ received < lim
  /\ \E b \in Bodies :
       LET in == resolveBody(b)
           err == precheck(in.payload, in.sig)
           r0 == NewBodyReq("verify", b)
           r1 == [r0 EXCEPT !.reads = 1, !.id = parsedId(in.payload)]
       IN
       IF err # "" THEN Step(NoReq, Respond(r0, precheckCode(err), err))
       ELSE \E ok \in BOOLEAN :
              IF ~ok THEN Step(NoReq, Threw(r1, "kv.get order"))
              ELSE IF getOrder(r1.id) = NoOrder
              THEN Step(NoReq, Respond(r1, 404, "order-not-found"))
              ELSE Step(NoReq, verified(r1, getOrder(r1.id)))
  /\ UNCHANGED mem
  /\ UNCHANGED <<store, now, uuids>>

markUsedDroppingQr(order, usedAt) ==
  [order EXCEPT !.status = "used", !.usedAt = usedAt, !.qr = NoQr]
markUsedNoTime(order, usedAt) == [order EXCEPT !.status = "used"]
\* const updated = { ...order, status: 'used', usedAt }
markUsed(order, usedAt) == [order EXCEPT !.status = "used", !.usedAt = usedAt]

\* res.status(409).json({ ok: false, error: 'already-used', usedAt })
alreadyUsed(r, order) ==
  [Respond(r, 409, "already-used") EXCEPT !.rid = order.id,
                                           !.rusedAt = order.usedAt]

\* POST /api/scan up to its first store write: the checks, await getOrder,
\* the status test and usedAt = new Date()
ScanStart(lim, Bodies) ==
  /\ received < lim
  /\ \E b \in Bodies :
       LET in == resolveBody(b)
           err == precheck(in.payload, in.sig)
           r0 == NewBodyReq("scan", b)
           r1 == [r0 EXCEPT !.reads = 1, !.id = parsedId(in.payload)]
       IN
       IF err # ""
       THEN Step(NoReq, Respond(r0, precheckCode(err), err)) /\ UNCHANGED now
       ELSE \E ok \in BOOLEAN :
              IF ~ok THEN Step(NoReq, Threw(r1, "kv.get order")) /\ UNCHANGED now
              ELSE IF getOrder(r1.id) = NoOrder
              THEN Step(NoReq, Respond(r1, 404, "order-not-found")) /\ UNCHANGED now
              ELSE IF getOrder(r1.id).status = "used"
              THEN Step(NoReq, alreadyUsed(r1, getOrder(r1.id))) /\ UNCHANGED now
              ELSE \E t \in now..MaxClock :
                     /\ Clock(t)
                     /\ Step(NoReq, [r1 EXCEPT !.pc = "set",
                                    !.order = markUsed(getOrder(r1.id), t)])
  /\ UNCHANGED mem
  /\ UNCHANGED <<store, uuids>>

\* await kv.set(order:<id>, updated)
ScanSet(q) ==
  /\ BagIn(q, reqs)
  /\ q.kind = "scan" /\ q.pc = "set"
  /\ \E ok \in BOOLEAN :
       IF ok
       THEN /\ kvOrder' = [kvOrder EXCEPT ![q.order.id] = q.order]
            /\ Step(q, [q EXCEPT !.pc = "zadd", !.writes = @ + 1])
       ELSE /\ Step(q, Threw(q, "kv.set order"))
            /\ UNCHANGED kvOrder
  /\ UNCHANGED mem
  /\ UNCHANGED <<ordersIds, ordersByTime, ordersUsedByTime, kvIdem, now, uuids>>

\* res.json({ ok: true, order: updated })
scanned(r) ==
  [Respond(r, 200, "") EXCEPT !.rid = r.order.id, !.rstatus = r.order.status,
                               !.rusedAt = r.order.usedAt]

\* await kv.zadd(orders:usedByTime, { score: Date.now(), member: id }), then
\* the success response
ScanZadd(q) ==
  /\ BagIn(q, reqs)
  /\ q.kind = "scan" /\ q.pc = "zadd"
  /\ \E t \in now..MaxClock : \E ok \in BOOLEAN :
       /\ Clock(t)
       /\ IF ok
          THEN /\ ordersUsedByTime' = ordersUsedByTime \cup {q.order.id}
               /\ Step(q, scanned([q EXCEPT !.writes = @ + 1]))
          ELSE /\ Step(q, Threw(q, "kv.zadd usedByTime"))
               /\ UNCHANGED ordersUsedByTime
  /\ UNCHANGED mem
  /\ UNCHANGED <<kvOrder, ordersIds, ordersByTime, kvIdem, uuids>>

\* ------------------------------------------------------------------ lookup
\* res.json({ id: order.id, qr: order.qr, order })
found(r, order) ==
  [Respond(r, 200, "") EXCEPT !.rid = order.id, !.rstatus = order.status,
                               !.rusedAt = order.usedAt, !.qrPayload = order.qr.payload,
                               !.qrSig = order.qr.sig]

\* GET /api/ticket/:id: the whole handler; its one store call is getOrder
Lookup(lim) ==
  /\ received < lim
  /\ \E id \in Ids \cup {UnissuedId} : \E ok \in BOOLEAN :
       LET r1 == [NewReq("lookup") EXCEPT !.id = id, !.reads = 1] IN
       IF ~ok THEN Step(NoReq, Threw(r1, "kv.get order"))
       ELSE IF getOrder(id) = NoOrder
       THEN Step(NoReq, Respond(r1, 404, "not-found"))
       ELSE Step(NoReq, found(r1, getOrder(id)))
  /\ UNCHANGED <<store, now, uuids, mem>>

\* ----------------------------------------------------------- admin listing
ADMIN_TOKEN == "admin-token"
AdminTokens == {ADMIN_TOKEN, "wrong-token"}

Max(a, b) == IF a >= b THEN a ELSE b
Min(a, b) == IF a <= b THEN a ELSE b
\* Math.max(1, Math.min(2000, Number(req.query.limit) || 50)); 0 stands for
\* a limit that is absent, zero or not a number
clampLimit(n) == Max(1, Min(2000, IF n = 0 THEN 50 ELSE n))

\* kv.zrevrange(orders:byTime, 0, limit - 1): the members by score, highest
\* first, cut to limit.  Members of equal score come in reverse
\* lexicographic order of the uuids, which is any order of the ids here.
zrevrange(limit) ==
  LET members == {i \in Ids : ordersByTime[i] # NoTime}
      n == Cardinality(members)
      sorted == {s \in [1..n -> members] :
                   /\ \A i, j \in 1..n : i # j => s[i] # s[j]
                   /\ \A i, j \in 1..n :
                        i < j => ordersByTime[s[i]] >= ordersByTime[s[j]]}
  IN {SubSeq(s, 1, Min(limit, n)) : s \in sorted}

\* res.json({ count: orders.length, orders })
listedAll(r) == [Respond(r, 200, "") EXCEPT !.ids = <<>>]

\* GET /api/admin/orders up to its loop: requireAdmin, the limit, and
\* await kv.zrevrange
AdminListStart(lim, Limits) ==
  /\ received < lim
  /\ \E token \in AdminTokens : \E n \in Limits : \E ok \in BOOLEAN :
       LET r0 == NewReq("adminList")
           r1 == [r0 EXCEPT !.limit = clampLimit(n), !.reads = 1]
       IN
       IF token # ADMIN_TOKEN THEN Step(NoReq, Respond(r0, 401, "unauthorized"))
       ELSE IF ~ok THEN Step(NoReq, Threw(r1, "kv.zrevrange"))
       ELSE \E ids \in zrevrange(r1.limit) :
              IF ids = <<>> THEN Step(NoReq, listedAll(r1))
              ELSE Step(NoReq, [r1 EXCEPT !.pc = "get", !.ids = ids])
  /\ UNCHANGED <<store, now, uuids, mem>>

\* one turn of the loop: const o = await getOrder(id); if (o) orders.push(o)
AdminListGet(q) ==
  /\ BagIn(q, reqs)
  /\ q.kind = "adminList" /\ q.pc = "get"
  /\ \E ok \in BOOLEAN :
       LET o == getOrder(Head(q.ids))
           r1 == [q EXCEPT !.reads = @ + 1, !.ids = Tail(@),
                           !.listed = IF o # NoOrder THEN Append(@, o) ELSE @]
       IN
       IF ~ok THEN Step(q, Threw([q EXCEPT !.reads = @ + 1], "kv.get order"))
       ELSE IF r1.ids = <<>> THEN Step(q, listedAll(r1))
       ELSE Step(q, r1)
  /\ UNCHANGED <<store, now, uuids, mem>>

\* ------------------------------------------------------ in-memory revision
\* const order = { id, name, email, ticketType, createdAt } and
\* stored = { ...order, qr }, the QR encoding JSON.stringify(order) unsigned;
\* the order has no status and no usedAt
memStored(id, name, email, ticketType, createdAt) ==
  LET order == [NoOrder EXCEPT !.id = id, !.name = name, !.email = email,
                               !.ticketType = ticketType,
                               !.createdAt = createdAt]
  IN [order EXCEPT !.qr = [NoQr EXCEPT !.payload = JSONstringify(order)]]

\* POST /api/checkout up to await QRCode.toDataURL: the three fields must be
\* present and non-empty, then uuidv4() and new Date()
MemCheckoutStart(lim, Inputs) ==
  /\ received < lim
  /\ \E in \in Inputs :
       LET r0 == [NewReq("memCheckout") EXCEPT !.name = in.name,
                    !.email = in.email, !.ticketType = in.ticketType]
       IN
       IF in.name = <<>> \/ in.email = <<>> \/ in.ticketType = <<>>
       THEN Step(NoReq, Respond(r0, 400, "required"))
              /\ UNCHANGED <<now, memUuids>>
       ELSE /\ memUuids < MaxOrders
            /\ \E t \in now..MaxClock :
                 /\ Clock(t)
                 /\ Step(NoReq, [r0 EXCEPT !.pc = "toDataURL",
                                !.id = memUuids + 1,
                                !.order = memStored(memUuids + 1, in.name,
                                            in.email, in.ticketType, t)])
            /\ memUuids' = memUuids + 1
  /\ UNCHANGED <<store, uuids, orders>>

\* QRCode.toDataURL resolves: orders.push(stored) and the 201; it rejects:
\* the catch block answers 500
MemCheckoutPush(q) ==
  /\ BagIn(q, reqs)
  /\ q.kind = "memCheckout" /\ q.pc = "toDataURL"
  /\ \E ok \in BOOLEAN :
       IF ok
       THEN /\ orders' = Append(orders, q.order)
            /\ Step(q, created(q))
       ELSE /\ Step(q, Threw(q, "toDataURL"))
            /\ UNCHANGED orders
  /\ UNCHANGED <<store, now, uuids, memUuids>>

findAfterFirst(id) ==
  LET hits == {i \in 2..Len(orders) : orders[i].id = id} IN
  IF hits = {} THEN 0 ELSE CHOOSE i \in hits : \A j \in hits : i <= j
\* orders.find(o => o.id === id): the index of the first match, 0 for none
find(id) ==
  LET hits == {i \in 1..Len(orders) : orders[i].id = id} IN
  IF hits = {} THEN 0 ELSE CHOOSE i \in hits : \A j \in hits : i <= j

\* GET /api/ticket/:id of the in-memory revision
MemLookup(lim) ==
  /\ received < lim
  /\ \E id \in Ids \cup {UnissuedId} :
       LET r1 == [NewReq("memLookup") EXCEPT !.id = id] IN
       IF find(id) = 0
       THEN Step(NoReq, Respond(r1, 404, "not-found"))
       ELSE Step(NoReq, found(r1, orders[find(id)]))
  /\ UNCHANGED <<store, now, uuids, mem>>

\* ------------------------------------------------------------------ inputs
Body(payload, sig) ==
  [payload |-> payload, sig |-> sig,
   qrPayload |-> EmptyPayload, qrSig |-> EmptySig]
QrBody(payload, sig) ==
  [payload |-> EmptyPayload, sig |-> EmptySig,
   qrPayload |-> payload, qrSig |-> sig]
flipSig(sig) == [sig EXCEPT !.flip = 1]

\* the signed payloads handed out so far (the qr of every stored order)
IssuedQrs == {kvOrder[i].qr : i \in {j \in Ids : kvOrder[j] # NoOrder}}

\* a payload signed with the server's key whose id was never issued
UnissuedPayload ==
  JSONstringify([NoOrder EXCEPT !.id = UnissuedId, !.status = "issued"])

Str(name, email, ticketType, idemKey) ==
  [name |-> name, email |-> email, ticketType |-> ticketType,
   idemKey |-> idemKey]

\* Checkout bodies of the main specification: an accepted one (whose three
\* fields each need normalising) with and without a key, and one rejected
\* by each check
CheckoutInputs ==
  { Str(<<" ","a","b">>, <<"a","@","b",".","c"," ">>, <<"v","i","p">>, NoKey),
    Str(<<" ","a","b">>, <<"a","@","b",".","c"," ">>, <<"v","i","p">>, "k1"),
    Str(<<" ","a"," ">>, <<"a","@","b",".","c">>, <<"V","I","P">>, NoKey),
    Str(<<"a","b">>, <<"a","@","b">>, <<"V","I","P">>, NoKey),
    Str(<<"a","b">>, <<"a","@","b",".","c">>, <<"g","o","l","d">>, NoKey) }

\* Verify and scan bodies of the main specification: every issued pair, the
\* same with one character of the signature changed, and a pair signed with
\* the server's key for an id that was never issued
ScanBodies ==
  {Body(q.payload, q.sig) : q \in IssuedQrs}
    \cup {Body(q.payload, flipSig(q.sig)) : q \in IssuedQrs}
    \cup {Body(UnissuedPayload, hmac(QR_SECRET, UnissuedPayload))}

\* All strings over an alphabet up to a length
SeqsUpTo(A, n) == UNION {[1..k -> A] : k \in 0..n}

\* Checkout bodies of the validation specification: ticket types in and out
\* of the fixed set; every email up to the bound with a valid name and type;
\* every name up to the bound, and every ticket type, with an email of each
\* kind (valid, no dot, empty, blank)
TicketTypeInputs ==
  { <<"V","I","P">>, <<"M","E","I","A">>, <<"v","i","p">>, <<"V","I","P"," ">>,
    <<"g","o","l","d">>, <<>> }
EmailInputs ==
  { <<"a","@","a",".","a">>, <<"a","@","a">>, <<>>, <<" ">> }
ValidationInputs ==
  { Str(<<"a","a">>, e, <<"V","I","P">>, NoKey) :
      e \in SeqsUpTo({"a", "@", ".", " "}, MaxEmailLen) }
    \cup { Str(n, e, t, NoKey) : n \in SeqsUpTo({"a", " "}, MaxNameLen),
                                 e \in EmailInputs,
                                 t \in TicketTypeInputs }

\* Verify and scan bodies of the signature specification.  Payloads: the
\* issued ones, each with one field changed or its JSON syntax broken, and
\* payloads that no checkout produced.  Signatures: of each payload under
\* the server's key, the same with one character changed, of each payload
\* under another key, and the empty one.
Altered(p) ==
  { [p EXCEPT !.id = UnissuedId], [p EXCEPT !.name = <<"x","y">>],
    [p EXCEPT !.email = <<"x","@","y",".","z">>],
    [p EXCEPT !.ticketType = <<"C","A","M","A","R","O","T","E">>],
    [p EXCEPT !.createdAt = @ + 1], [p EXCEPT !.status = "used"],
    [p EXCEPT !.form = "garbage"] }
SignaturePayloads ==
  {q.payload : q \in IssuedQrs}
    \cup UNION {Altered(q.payload) : q \in IssuedQrs}
    \cup {UnissuedPayload, GarbagePayload, NoIdPayload, EmptyPayload}
SignatureSigs ==
  {hmac(QR_SECRET, p) : p \in SignaturePayloads}
    \cup {flipSig(hmac(QR_SECRET, p)) : p \in SignaturePayloads}
    \cup {hmac("other-secret", p) : p \in SignaturePayloads}
    \cup {EmptySig}
SignatureBodies ==
  {Body(p, s) : p \in SignaturePayloads, s \in SignatureSigs}
    \cup {QrBody(p, s) : p \in SignaturePayloads, s \in SignatureSigs}
    \cup {[Body(p, EmptySig) EXCEPT !.qrPayload = q.payload, !.qrSig = q.sig] :
            p \in SignaturePayloads, q \in IssuedQrs}

\* ----------------------------------------------------------- specification
Next ==
  \/ CheckoutStart(MaxReqs, MaxOrders, CheckoutInputs)
  \/ \E q \in BagToSet(reqs) : CheckoutGetExisting(q)
  \/ \E q \in BagToSet(reqs) : CheckoutSet(q)
  \/ \E q \in BagToSet(reqs) : CheckoutSadd(q)
  \/ \E q \in BagToSet(reqs) : CheckoutZadd(q)
  \/ \E q \in BagToSet(reqs) : CheckoutBind(q)
  \/ Verify(MaxReqs, ScanBodies)
  \/ ScanStart(MaxReqs, ScanBodies)
  \/ \E q \in BagToSet(reqs) : ScanSet(q)
  \/ \E q \in BagToSet(reqs) : ScanZadd(q)
  \/ ExpireIdem

Spec == Init /\ [][Next]_vars

\* One checkout request on the empty store, its body drawn from every name
\* and email up to the bounds
NextValidation ==
  \/ CheckoutStart(1, MaxOrders, ValidationInputs)
  \/ \E q \in BagToSet(reqs) : CheckoutSet(q)
  \/ \E q \in BagToSet(reqs) : CheckoutSadd(q)
  \/ \E q \in BagToSet(reqs) : CheckoutZadd(q)

SpecValidation == Init /\ [][NextValidation]_vars

\* Two requests, a checkout and a verify or scan, the latter's body drawn
\* from every combination of payload and signature above
NextSignature ==
  \/ CheckoutStart(2, MaxOrders, {Str(<<"a","b">>, <<"a","@","b",".","c">>,
                                      <<"V","I","P">>, NoKey)})
  \/ \E q \in BagToSet(reqs) : CheckoutSet(q)
  \/ \E q \in BagToSet(reqs) : CheckoutSadd(q)
  \/ \E q \in BagToSet(reqs) : CheckoutZadd(q)
  \/ Verify(2, SignatureBodies)
  \/ ScanStart(2, SignatureBodies)
  \/ \E q \in BagToSet(reqs) : ScanSet(q)
  \/ \E q \in BagToSet(reqs) : ScanZadd(q)

SpecSignature == Init /\ [][NextSignature]_vars

\* Checkouts, with and without an idempotency key, and the deliveries of
\* their emails
NextNotify ==
  \/ CheckoutStart(MaxReqs, MaxOrders, CheckoutInputs)
  \/ \E q \in BagToSet(reqs) : CheckoutGetExisting(q)
  \/ \E q \in BagToSet(reqs) : CheckoutSet(q)
  \/ \E q \in BagToSet(reqs) : CheckoutSadd(q)
  \/ \E q \in BagToSet(reqs) : CheckoutZadd(q)
  \/ \E q \in BagToSet(reqs) : CheckoutBind(q)
  \/ ExpireIdem
  \/ SendTicketEmail

SpecNotify == Init /\ [][NextNotify]_vars

\* Checkout bodies sent to the in-memory revision: complete ones (it checks
\* no format) and one with an empty field
MemInputs ==
  { Str(<<"a","b">>, <<"a","@","b",".","c">>, <<"V","I","P">>, NoKey),
    Str(<<"a">>, <<"x">>, <<"g","o","l","d">>, NoKey),
    Str(<<"a","b">>, <<>>, <<"V","I","P">>, NoKey) }

\* Lookups among checkouts and scans, sent to the key-value-store revision
\* and to the in-memory revision (two deployments, one client)
NextLookup ==
  \/ CheckoutStart(MaxReqs, MaxOrders,
                   {Str(<<"a","b">>, <<"a","@","b",".","c">>,
                        <<"V","I","P">>, NoKey)})
  \/ \E q \in BagToSet(reqs) : CheckoutSet(q)
  \/ \E q \in BagToSet(reqs) : CheckoutSadd(q)
  \/ \E q \in BagToSet(reqs) : CheckoutZadd(q)
  \/ ScanStart(MaxReqs, ScanBodies)
  \/ \E q \in BagToSet(reqs) : ScanSet(q)
  \/ \E q \in BagToSet(reqs) : ScanZadd(q)
  \/ Lookup(MaxReqs)
  \/ MemCheckoutStart(MaxReqs, MemInputs)
  \/ \E q \in BagToSet(reqs) : MemCheckoutPush(q)
  \/ MemLookup(MaxReqs)

SpecLookup == Init /\ [][NextLookup]_vars

\* the limit parameters tried: absent, negative, and up to the orders there
\* can be
LimitInputs == -1..(MaxOrders + 1)

\* Checkouts, one more than in the main specification, and admin listings
NextAdmin ==
  \/ CheckoutStart(MaxReqs, MaxOrders + 1,
                   {Str(<<"a","b">>, <<"a","@","b",".","c">>,
                        <<"V","I","P">>, NoKey)})
  \/ \E q \in BagToSet(reqs) : CheckoutSet(q)
  \/ \E q \in BagToSet(reqs) : CheckoutSadd(q)
  \/ \E q \in BagToSet(reqs) : CheckoutZadd(q)
  \/ AdminListStart(MaxReqs, LimitInputs)
  \/ \E q \in BagToSet(reqs) : AdminListGet(q)

SpecAdmin == Init /\ [][NextAdmin]_vars

\* ------------------------------------------------------------------ claims
Stored(id) == kvOrder[id] # NoOrder
ScanInFlight(id) ==
  \E q \in BagToSet(reqs) : q.kind = "scan" /\ q.id = id
ScansAnswered(id) == tally[id].ok + tally[id].used + tally[id].failed

\* C1: of the scan requests that carry one issued ticket's validly signed
\* payload, once all are answered (no store call having thrown), exactly one
\* was answered with success and every other one with already-used.
C1_ExactlyOneRedeems ==
  \A id \in Ids :
    (id \in createdIds /\ ScansAnswered(id) >= 1 /\ ~ScanInFlight(id)
       /\ tally[id].failed = 0)
      => /\ tally[id].ok = 1
         /\ tally[id].used = ScansAnswered(id) - 1

\* C2: a usedAt that is set never changes, and an already-used answer
\* carries the usedAt written by the first redemption of the ticket.
C2_UsedAtFixed ==
  [][ /\ \A id \in createdIds :
           kvOrder[id].usedAt # NoTime
             => kvOrder'[id].usedAt = kvOrder[id].usedAt
      /\ (last' # last /\ last'.kind = "scan" /\ last'.code = 409)
           => last'.rusedAt = firstUsedAt'[last'.rid] ]_vars

\* C3: a stored order's status is issued or used, a new order starts as
\* issued, and no step takes a stored order from used back to issued.
C3_StatusMonotonic ==
  [][ \A id \in Ids :
        /\ Stored(id)' => kvOrder'[id].status \in {"issued", "used"}
        /\ (~Stored(id) /\ Stored(id)') => kvOrder'[id].status = "issued"
        /\ (Stored(id) /\ kvOrder[id].status = "used")
             => kvOrder'[id].status = "used" ]_vars
\* a redeemed order is still used after a later scan of it was answered
C3_Witness ==
  \E id \in Ids :
    /\ kvOrder[id].status = "used"
    /\ last.kind = "scan" /\ last.code = 409 /\ last.rid = id

\* C4: a stored order has a usedAt exactly when its status is used.
C4_UsedAtIffUsed ==
  \A id \in Ids :
    Stored(id) => (kvOrder[id].usedAt # NoTime <=> kvOrder[id].status = "used")
\* an order was redeemed and the success response was sent
C4_Witness ==
  \E id \in Ids :
    /\ kvOrder[id].status = "used" /\ kvOrder[id].usedAt # NoTime
    /\ last.kind = "scan" /\ last.code = 200 /\ last.rid = id

\* the pair a verify or scan request is judged by
Pair(r) == resolveBody(r)
CarriesTicket(r, id) ==
  /\ Pair(r).payload = kvOrder[id].qr.payload
  /\ Pair(r).sig = kvOrder[id].qr.sig

\* C6: Verify with the payload and signature that a returned Issue produced
\* succeeds (unless its store read throws), and it reports status issued
\* with no usedAt as long as the order has not been redeemed.
C6_VerifyAfterIssue ==
  \A id \in createdIds :
    (last.kind = "verify" /\ CarriesTicket(last, id) /\ last.threw = "")
      => /\ last.code = 200
         /\ last.rid = id
         /\ kvOrder[id].status = "issued"
              => (last.rstatus = "issued" /\ last.rusedAt = NoTime)
\* such a Verify was answered while the ticket was still unredeemed
C6_Witness ==
  \E id \in createdIds :
    /\ last.kind = "verify" /\ CarriesTicket(last, id)
    /\ last.code = 200 /\ last.rstatus = "issued"
    /\ kvOrder[id].status = "issued"

\* C7: a valid Issue whose idempotency key is bound when it arrives (the
\* binding was made by an Issue that returned created and has not expired),
\* and whose store reads succeed, returns the bound order id flagged as a
\* replay and writes nothing to the store.
C7_IdempotentReplay ==
  [][ (last' # last /\ last'.kind = "checkout" /\ last'.boundAt # NoId
         /\ validationError(last'.name, last'.email, last'.ticketType) = ""
         /\ last'.threw = "")
        => /\ last'.code = 200
           /\ last'.idempotent
           /\ last'.rid = last'.boundAt
           /\ last'.rid \in createdIds
           /\ last'.writes = 0
           /\ store' = store ]_vars
\* a replay was answered
C7_Witness ==
  /\ last.kind = "checkout" /\ last.boundAt # NoId
  /\ last.code = 200 /\ last.idempotent /\ last.rid \in createdIds

CheckoutInFlight(id) ==
  \E q \in BagToSet(reqs) :
    q.kind = "checkout" /\ q.pc \in {"set", "sadd", "zadd", "bind"} /\ q.id = id

\* C8: when no Issue of it is in progress, an order is either absent from
\* the store or stored with both of its index entries.
C8_NoHalfWrittenOrder ==
  \A id \in Ids :
    (Stored(id) /\ ~CheckoutInFlight(id))
      => (id \in ordersIds /\ ordersByTime[id] # NoTime)

\* C9: a valid Issue with an idempotency key whose only failing store calls
\* are those of the idempotency mapping (the lookup of the key, the binding
\* of the key) persists a new order and answers created.
C9_IdempotencyBestEffort ==
  (last.kind = "checkout" /\ last.idemKey # NoKey
     /\ validationError(last.name, last.email, last.ticketType) = ""
     /\ last.threw \in {"kv.get idem", "kv.set idem"})
    => (last.code = 201 /\ last.rid \in Ids /\ Stored(last.rid))

\* the request that arrives in a step in which received grows
Arrived ==
  IF reqs' = reqs THEN last'
  ELSE CHOOSE q \in BagToSet(reqs') : CopiesIn(q, reqs') > CopiesIn(q, reqs)
Answered(r, code, error) == r.pc = "done" /\ r.code = code /\ r.error = error

BadSignature(r) == Pair(r).sig # hmac(QR_SECRET, Pair(r).payload)
Missing(r) == missing(Pair(r).payload, Pair(r).sig)

\* C5 as stated: a verify or scan request whose signature is not the keyed
\* signature of its payload is answered invalid-signature, makes no store
\* lookup and leaves the store unchanged.
C5_BadSignatureRejected ==
  [][ (received' = received + 1 /\ Arrived.kind \in {"verify", "scan"}
         /\ BadSignature(Arrived))
        => /\ Answered(Arrived, 401, "invalid-signature")
           /\ Arrived.reads = 0
           /\ store' = store ]_vars

\* C5 amended: with payload and signature both non-empty, a signature that
\* is not the keyed signature of the payload is answered invalid-signature;
\* an empty or missing payload or signature is answered 400 payload/sig
\* missing; in both cases no store lookup is made and the store is unchanged.
C5_BadOrMissingRejected ==
  [][ (received' = received + 1 /\ Arrived.kind \in {"verify", "scan"}
         /\ BadSignature(Arrived))
        => /\ IF Missing(Arrived)
              THEN Answered(Arrived, 400, "payload/sig missing")
              ELSE Answered(Arrived, 401, "invalid-signature")
           /\ Arrived.reads = 0
           /\ store' = store ]_vars
\* a scan of an issued ticket's payload with an altered signature was
\* rejected
C5_Witness ==
  \E id \in createdIds :
    /\ last.kind = "scan" /\ last.code = 401
    /\ Pair(last).payload = kvOrder[id].qr.payload
    /\ Pair(last).sig = flipSig(kvOrder[id].qr.sig)

Rejected(name, email, ticketType) ==
  \/ Len(trim(name)) < 2
  \/ ~matchesEmailPattern(trim(email))
  \/ toUpperCase(ticketType) \notin ALLOWED_TICKET_TYPES

\* C10: a checkout request whose trimmed name has fewer than 2 characters,
\* whose email does not match the pattern or whose upper-cased ticketType is
\* not in the fixed set is answered 400 and changes nothing in the store.
C10_InvalidInputRejected ==
  [][ (received' = received + 1 /\ Arrived.kind = "checkout"
         /\ Rejected(Arrived.name, Arrived.email, Arrived.ticketType))
        => /\ Arrived.pc = "done" /\ Arrived.code = 400
           /\ Arrived.error \in {"name", "email", "ticketType"}
           /\ Arrived.reads = 0 /\ Arrived.writes = 0
           /\ store' = store /\ uuids' = uuids ]_vars
\* a request with an acceptable name and ticketType was rejected for its
\* email
C10_Witness ==
  /\ last.kind = "checkout" /\ last.code = 400 /\ last.error = "email"
  /\ Len(trim(last.name)) >= 2
  /\ toUpperCase(last.ticketType) \in ALLOWED_TICKET_TYPES
  /\ kvOrder = [i \in Ids |-> NoOrder]

\* C11: the ticketType of every stored order is one of VIP, PISTA, MEIA,
\* CAMAROTE in upper case; a checkout whose ticketType is one of them up to
\* letter case (name and email being valid) is not rejected, and the order
\* it creates carries the upper-case value.
C11_TicketTypeCanonical ==
  /\ \A id \in Ids :
       Stored(id) => kvOrder[id].ticketType \in ALLOWED_TICKET_TYPES
  /\ (last.kind = "checkout" /\ Len(trim(last.name)) >= 2
        /\ isEmail(last.email)
        /\ toUpperCase(last.ticketType) \in ALLOWED_TICKET_TYPES)
       => last.code # 400
  /\ (last.kind = "checkout" /\ last.code = 201)
       => kvOrder[last.rid].ticketType = toUpperCase(last.ticketType)
\* a checkout with ticketType "vip" was answered created and stored as "VIP"
C11_Witness ==
  /\ last.kind = "checkout" /\ last.code = 201
  /\ last.ticketType = <<"v","i","p">>
  /\ kvOrder[last.rid].ticketType = <<"V","I","P">>

\* C12: a verify request, whatever its body and its outcome, is answered in
\* one step that writes nothing: the stored orders, the three indexes and
\* the idempotency mappings are the same before and after it.
C12_VerifyReadOnly ==
  [][ (received' = received + 1 /\ Arrived.kind = "verify")
        => /\ Arrived.pc = "done"
           /\ Arrived.code \in {200, 400, 401, 404, 500}
           /\ Arrived.writes = 0
           /\ store' = store ]_vars
\* a verify was answered with success and the order it read is stored as it
\* was issued
C12_Witness ==
  /\ last.kind = "verify" /\ last.code = 200
  /\ Stored(last.rid) /\ kvOrder[last.rid].status = "issued"
  /\ last.rid \notin ordersUsedByTime

\* C13: checkout answers created while the delivery of its email is still
\* pending, with the order stored; and the step in which a delivery settles
\* (sent, refused by the provider, rejected, disabled) changes no stored
\* order, index or mapping, no response and no request in progress.  A
\* delivery that never settles takes no step at all.
C13_NotificationIndependent ==
  [][ /\ (last' # last /\ last'.kind = "checkout" /\ last'.code = 201)
           => /\ emails'[last'.rid] = "pending"
              /\ kvOrder'[last'.rid].id = last'.rid
              /\ kvOrder'[last'.rid].status = "issued"
      /\ (\E id \in Ids : emails[id] = "pending" /\ emails'[id] # "pending")
           => /\ store' = store
              /\ last' = last
              /\ reqs' = reqs
              /\ createdIds' = createdIds ]_vars
\* the delivery of a created order's email was rejected and the order is
\* still stored, its created response the last one sent
C13_Witness ==
  \E id \in createdIds :
    /\ emails[id] = "rejected"
    /\ Stored(id)
    /\ last.kind = "checkout" /\ last.code = 201 /\ last.rid = id

\* C14: in every step, an order that is stored stays stored with the same
\* id, name, email, ticketType, createdAt and qr; if the step changes it at
\* all, the order it leaves has status used and a usedAt.
C14_OrderImmutable ==
  [][ \A id \in Ids :
        Stored(id)
          => /\ Stored(id)'
             /\ kvOrder'[id].id = kvOrder[id].id
             /\ kvOrder'[id].name = kvOrder[id].name
             /\ kvOrder'[id].email = kvOrder[id].email
             /\ kvOrder'[id].ticketType = kvOrder[id].ticketType
             /\ kvOrder'[id].createdAt = kvOrder[id].createdAt
             /\ kvOrder'[id].qr = kvOrder[id].qr
             /\ kvOrder'[id] # kvOrder[id]
                  => (kvOrder'[id].status = "used"
                        /\ kvOrder'[id].usedAt # NoTime) ]_vars
\* two overlapping scans have both written the order and been answered, and
\* the order still is the one its signed payload describes
C14_Witness ==
  \E id \in createdIds :
    /\ tally[id].ok = 2
    /\ kvOrder[id].status = "used"
    /\ JSONstringify([kvOrder[id] EXCEPT !.status = "issued"])
         = kvOrder[id].qr.payload

ValidlySigned(r) == ~Missing(r) /\ ~BadSignature(r)

\* C15: a verify or scan request whose payload carries the keyed signature
\* and an id under which no order is stored is answered 404 order-not-found
\* (unless its store read throws), writes nothing, and leaves the stored
\* orders, the indexes (usedByTime among them) and the mappings unchanged.
C15_UnknownIdNotFound ==
  [][ (received' = received + 1 /\ Arrived.kind \in {"verify", "scan"}
         /\ ValidlySigned(Arrived)
         /\ parsedId(Pair(Arrived).payload) # NoId
         /\ parsedId(Pair(Arrived).payload) \notin {i \in Ids : Stored(i)}
         /\ Arrived.threw = "")
        => /\ Answered(Arrived, 404, "order-not-found")
           /\ Arrived.writes = 0
           /\ store' = store ]_vars
\* a scan of a validly signed payload with an id never issued was answered
\* not-found while another order was stored, and nothing is indexed as used
C15_Witness ==
  /\ last.kind = "scan" /\ last.code = 404 /\ last.id = UnissuedId
  /\ ValidlySigned(last)
  /\ createdIds # {}
  /\ ordersUsedByTime = {}

MemStored(id) == \E i \in 1..Len(orders) : orders[i].id = id

\* C16: a lookup by id (whose store read did not throw) of an id that a
\* checkout has returned with 201 is answered 200 with the stored order of
\* that id, at whatever later step it arrives; a lookup of an id under which
\* nothing was ever stored is answered 404; and a lookup leaves the store
\* unchanged.  The same for the in-memory revision and its array.
C16_LookupAfterIssue ==
  [][ /\ (received' = received + 1 /\ Arrived.kind = "lookup"
            /\ Arrived.threw = "")
           => /\ Arrived.id \in createdIds
                   => /\ Answered(Arrived, 200, "")
                      /\ Arrived.rid = Arrived.id
                      /\ Arrived.rstatus = kvOrder[Arrived.id].status
                      /\ Arrived.rusedAt = kvOrder[Arrived.id].usedAt
                      /\ Arrived.qrPayload = kvOrder[Arrived.id].qr.payload
              /\ (Arrived.id \notin Ids \/ ~Stored(Arrived.id))
                   => Answered(Arrived, 404, "not-found")
      /\ (received' = received + 1 /\ Arrived.kind = "lookup")
           => (store' = store /\ Arrived.writes = 0)
      /\ (received' = received + 1 /\ Arrived.kind = "memLookup")
           => /\ Arrived.id \in memCreated
                   => /\ Answered(Arrived, 200, "")
                      /\ Arrived.rid = Arrived.id
                      /\ Arrived.qrPayload.id = Arrived.id
              /\ ~MemStored(Arrived.id) => Answered(Arrived, 404, "not-found")
              /\ orders' = orders ]_vars
\* both revisions have created an order, and a lookup of the key-value
\* one's was answered with it
C16_Witness ==
  \E id \in createdIds :
    /\ last.kind = "lookup" /\ last.code = 200 /\ last.rid = id
    /\ memCreated # {}
\* the in-memory revision found an order it had created
C16_WitnessMemory ==
  /\ last.kind = "memLookup" /\ last.code = 200 /\ last.rid \in memCreated

\* C17: an admin listing answered with success carries at most limit
\* orders, and their createdAt never increases along the list (so an order
\* created later is never listed after one created earlier).
C17_ListingNewestFirst ==
  (last.kind = "adminList" /\ last.code = 200)
    => /\ Len(last.listed) <= last.limit
       /\ \A i, j \in 1..Len(last.listed) :
            i < j => last.listed[i].createdAt >= last.listed[j].createdAt

\* C18: a verify answered with success reports the status and the usedAt of
\* the order stored under the payload's id when it is read, whatever the
\* payload says: used with the stored usedAt once the order is redeemed,
\* issued with no usedAt before.
C18_VerifyReportsStored ==
  [][ (received' = received + 1 /\ Arrived.kind = "verify"
         /\ Arrived.code = 200)
        => /\ Arrived.rid = parsedId(Pair(Arrived).payload)
           /\ Arrived.rstatus = kvOrder[Arrived.rid].status
           /\ Arrived.rusedAt = kvOrder[Arrived.rid].usedAt
           /\ kvOrder[Arrived.rid].status = "used"
                => (Arrived.rstatus = "used" /\ Arrived.rusedAt # NoTime)
           /\ kvOrder[Arrived.rid].status = "issued"
                => (Arrived.rstatus = "issued" /\ Arrived.rusedAt = NoTime) ]_vars
\* a verify with the payload as issued (status issued) was answered used,
\* with the usedAt stored by the redemption
C18_Witness ==
  /\ last.kind = "verify" /\ last.code = 200
  /\ Pair(last).payload.status = "issued"
  /\ last.rstatus = "used"
  /\ last.rusedAt # NoTime /\ last.rusedAt = kvOrder[last.rid].usedAt

\* C19: an order is used only through a scan answered with success: once no
\* scan of it is in progress, a stored order with status used has had a
\* scan answered 200 (every scan answered with an error left it as it was).
C19_UsedOnlyBySuccess ==
  \A id \in createdIds :
    (Stored(id) /\ kvOrder[id].status = "used" /\ ~ScanInFlight(id))
      => tally[id].ok >= 1

====
